---- MODULE Spec2Model ----
(***************************************************************************)
(* Model of scripts/get_kg_schools.py: the tile / fetch / normalize /      *)
(* classify / dedupe pipeline of the school collector.                     *)
(*                                                                         *)
(* Python values are tagged records [t |-> tag, v |-> payload].  A Python  *)
(* str is a sequence of one-character tokens; a Cyrillic letter is written *)
(* as its transliteration with a leading underscore ("_sh" is the letter   *)
(* sha, "_SH" its capital), a Latin letter, digit or punctuation mark as   *)
(* itself.  A float is kept in fixed point, in units of 10^-5.             *)
(***************************************************************************)
EXTENDS Integers, Sequences, FiniteSets, TLC

VARIABLES
    mode,          \* which entry point of the module is being exercised
    pc,            \* position of the running function
    country,       \* run_collection(country, ...)
    tiles,         \* run_collection(..., tiles, ...): tiles per axis
    strict,        \* run_collection(..., strict, ...)
    tiles_list,    \* run_collection: tiles_list
    idx,           \* run_collection: number of tiles whose processing has ended
    page,          \* fetch_tile: page
    tile_features, \* fetch_tile: all_features (the tile's raw results so far)
    all_features,  \* run_collection: all_features (normalized records of the run)
    deduped,       \* run_collection: deduped
    requests,      \* session.get calls issued for the current tile, with responses
    exc,           \* the exception being handled or propagating, "none" otherwise
    failed,        \* number of tiles whose processing ended in an except clause
    tile_start,    \* where in the backend's catalogue the current tile's results begin
    n_dedupe,      \* calls of dedupe made by run_collection
    input,         \* argument handed to the function under test
    output,        \* its result
    output2        \* result of applying dedupe to its own result

vars == <<mode, pc, country, tiles, strict, tiles_list, idx, page, tile_features,
          all_features, deduped, requests, exc, failed, tile_start, n_dedupe,
          input, output, output2>>

-----------------------------------------------------------------------------
(* Bounds of the model.                                                    *)

MaxTilesPerAxis == 2   \* tiles per axis are drawn from -1 .. MaxTilesPerAxis
PageSize == 2          \* fetch_tile's results_per_page
MaxPages == 2          \* fetch_tile's max_pages
MaxResults == 4        \* records a run holds at any time (fetched or accumulated)
MaxRecords == 3        \* length of the sequences handed to dedupe

-----------------------------------------------------------------------------
(* Python values.                                                          *)

Null == [t |-> "null"]
Str(s) == [t |-> "str", v |-> s]
Num(n) == [t |-> "num", v |-> n]
Flt(u) == [t |-> "flt", v |-> u]
List(l) == [t |-> "list", v |-> l]
Dict(d) == [t |-> "dict", v |-> d]
EmptyDict == Dict([k \in {} |-> Null])
Absent == [t |-> "absent"]

\* A dict literal whose keys with the value Absent are left out.
Prune(r) == Dict([k \in {x \in DOMAIN r : r[x].t # "absent"} |-> r[k]])

\* Result of a call: a value, or an exception that propagates.
Ok(v) == [t |-> "ok", v |-> v]
Raise(e) == [t |-> "raise", v |-> e]

\* bool(value)
Truthy(x) ==
    CASE x.t = "null" -> FALSE
      [] x.t = "str" -> x.v # <<>>
      [] x.t = "num" -> x.v # 0
      [] x.t = "flt" -> x.v # 0
      [] x.t = "list" -> x.v # <<>>
      [] x.t = "dict" -> DOMAIN x.v # {}

\* a or b
Or(a, b) == IF Truthy(a) THEN a ELSE b

\* d.get(key), d a dict
Get(d, key) == IF key \in DOMAIN d.v THEN d.v[key] ELSE Null

\* d.get(key, default), d a dict
GetDefault(d, key, default) == IF key \in DOMAIN d.v THEN d.v[key] ELSE default

-----------------------------------------------------------------------------
(* Strings.                                                                *)

UpperChars ==
    <<"_A", "_B", "_V", "_G", "_D", "_E", "_YO", "_ZH", "_Z", "_I", "_J", "_K",
      "_L", "_M", "_N", "_O", "_P", "_R", "_S", "_T", "_U", "_F", "_H", "_C",
      "_CH", "_SH", "_SCH", "_HARD", "_Y", "_SOFT", "_EH", "_YU", "_YA">>
    \o <<"A", "B", "C", "D", "E", "F", "G", "H", "I", "J", "K", "L", "M", "N",
         "O", "P", "Q", "R", "S", "T", "U", "V", "W", "X", "Y", "Z">>

LowerChars ==
    <<"_a", "_b", "_v", "_g", "_d", "_e", "_yo", "_zh", "_z", "_i", "_j", "_k",
      "_l", "_m", "_n", "_o", "_p", "_r", "_s", "_t", "_u", "_f", "_h", "_c",
      "_ch", "_sh", "_sch", "_hard", "_y", "_soft", "_eh", "_yu", "_ya">>
    \o <<"a", "b", "c", "d", "e", "f", "g", "h", "i", "j", "k", "l", "m", "n",
         "o", "p", "q", "r", "s", "t", "u", "v", "w", "x", "y", "z">>

LowerChar(c) ==
    IF \E i \in 1..Len(UpperChars) : UpperChars[i] = c
    THEN LowerChars[CHOOSE i \in 1..Len(UpperChars) : UpperChars[i] = c]
    ELSE c

\* s.lower()
lower(s) == [i \in 1..Len(s) |-> LowerChar(s[i])]

Whitespace == {" ", "\n", "\t", "\r"}

\* s.strip()
strip(s) ==
    LET keep == {i \in 1..Len(s) : s[i] \notin Whitespace}
    IN IF keep = {} THEN <<>>
       ELSE SubSeq(s, CHOOSE i \in keep : \A j \in keep : i <= j,
                      CHOOSE i \in keep : \A j \in keep : j <= i)

\* s.replace(ch, " ") for every ch of chars
replace_all(s, chars) == [i \in 1..Len(s) |-> IF s[i] \in chars THEN " " ELSE s[i]]

\* " ".join(s.split())
RECURSIVE split_join(_)
split_join(s) ==
    LET t == strip(s)
        ws == {i \in 1..Len(t) : t[i] \in Whitespace}
    IN IF ws = {} THEN t
       ELSE LET i == CHOOSE k \in ws : \A j \in ws : k <= j
            IN SubSeq(t, 1, i - 1) \o <<" ">> \o split_join(SubSeq(t, i + 1, Len(t)))

\* m in s
contains(m, s) == \E i \in 0..(Len(s) - Len(m)) : SubSeq(s, i + 1, i + Len(m)) = m

\* sep.join(items), items a sequence of str
RECURSIVE join(_, _)
join(sep, items) ==
    IF items = <<>> THEN <<>>
    ELSE IF Len(items) = 1 THEN items[1]
    ELSE items[1] \o sep \o join(sep, Tail(items))

\* Decimal digits of a natural number.
RECURSIVE Digits(_)
Digits(n) == IF n < 10 THEN <<ToString(n)>> ELSE Digits(n \div 10) \o <<ToString(n % 10)>>

\* str(n), n an int
str_int(n) == IF n < 0 THEN <<"-">> \o Digits(-n) ELSE Digits(n)

\* The last width decimal digits of w, zero-padded.
RECURSIVE Padded(_, _)
Padded(w, width) ==
    IF width = 0 THEN <<>> ELSE Padded(w \div 10, width - 1) \o <<ToString(w % 10)>>

\* Fractional digits of a float's repr: trailing zeros dropped, one digit kept.
RECURSIVE Fraction(_, _)
Fraction(w, width) ==
    IF width = 1 \/ w % 10 # 0 THEN Padded(w, width) ELSE Fraction(w \div 10, width - 1)

\* str(x), x a float that is a whole number r of ten-thousandths
str_float4(r) ==
    LET a == IF r < 0 THEN -r ELSE r
    IN (IF r < 0 THEN <<"-">> ELSE <<>>)
       \o Digits(a \div 10000) \o <<".">> \o Fraction(a % 10000, 4)

\* round(x, 4) for a float of u hundred-thousandths, in ten-thousandths
\* (a tie goes to the even neighbour)
round4(u) ==
    LET q == u \div 10
        r == u % 10
    IN IF r < 5 THEN q
       ELSE IF r > 5 THEN q + 1
       ELSE IF q % 2 = 0 THEN q ELSE q + 1

\* str(value), value a str or an int
str(x) ==
    CASE x.t = "str" -> x.v
      [] x.t = "num" -> str_int(x.v)

-----------------------------------------------------------------------------
(* normalize_feature                                                       *)

\* first_or_none(items, key)
first_or_none(items, key) ==
    IF items.t # "list" \/ items.v = <<>> THEN Ok(Null)
    ELSE IF items.v[1].t # "dict" THEN Raise("AttributeError")
    ELSE Ok(Get(items.v[1], key))

\* p.get(keys[1]) or p.get(keys[2]) or ...
RECURSIVE first_truthy(_, _)
first_truthy(p, keys) ==
    IF Len(keys) = 1 THEN Get(p, keys[1])
    ELSE Or(Get(p, keys[1]), first_truthy(p, Tail(keys)))

\* The loops over phones and categories: the truthy first_truthy(p, keys) of
\* the entries p of items, in order.  Iterating a truthy value that is no
\* list, or calling .get on an entry that is no dict, raises.
entry_values(items, keys) ==
    IF items.t # "list" THEN Raise("TypeError")
    ELSE IF \E i \in 1..Len(items.v) : items.v[i].t # "dict" THEN Raise("AttributeError")
    ELSE Ok(SelectSeq([i \in 1..Len(items.v) |-> first_truthy(items.v[i], keys)], Truthy))

\* ", ".join(values) if values else None
joined(values) ==
    IF values = <<>> THEN Ok(Null)
    ELSE IF \E i \in 1..Len(values) : values[i].t # "str" THEN Raise("TypeError")
    ELSE Ok(Str(join(<<",", " ">>, [i \in 1..Len(values) |-> values[i].v])))

normalize_feature(feature) ==
    LET properties == GetDefault(feature, "properties", EmptyDict)
        geometry == GetDefault(feature, "geometry", EmptyDict)
    IN IF properties.t # "dict" THEN Raise("AttributeError")
       ELSE LET company == GetDefault(properties, "CompanyMetaData", EmptyDict)
       IN IF geometry.t # "dict" \/ company.t # "dict" THEN Raise("AttributeError")
          ELSE
          LET coords == Or(Get(geometry, "coordinates"), List(<<Null, Null>>))
              phones == Or(Get(company, "Phones"), List(<<>>))
              categories == Or(Get(company, "Categories"), List(<<>>))
              hours == Or(Get(company, "Hours"), EmptyDict)
              links == Or(Get(company, "Links"), List(<<>>))
              phone_numbers == entry_values(phones, <<"formatted", "number", "value">>)
              categories_list == entry_values(categories, <<"name", "class">>)
              site_url == first_or_none(links, "href")
              is_pair == coords.t = "list" /\ Len(coords.v) = 2
          IN IF phone_numbers.t = "raise" THEN phone_numbers
             ELSE IF categories_list.t = "raise" THEN categories_list
             ELSE IF site_url.t = "raise" THEN site_url
             ELSE
             LET phones_text == joined(phone_numbers.v)
                 categories_text == joined(categories_list.v)
             IN IF phones_text.t = "raise" THEN phones_text
                ELSE IF categories_text.t = "raise" THEN categories_text
                ELSE Ok([id |-> Or(Get(properties, "id"), Get(company, "id")),
                         name |-> Or(Get(company, "name"), Get(properties, "name")),
                         address |-> Or(Get(company, "address"),
                                        Get(properties, "description")),
                         lat |-> IF is_pair THEN coords.v[2] ELSE Null,
                         lon |-> IF is_pair THEN coords.v[1] ELSE Null,
                         phones |-> phones_text.v,
                         categories |-> categories_text.v,
                         categories_list |-> List(categories_list.v),
                         hours_text |-> IF hours.t = "dict" THEN Get(hours, "text")
                                        ELSE Null,
                         site_url |-> site_url.v,
                         raw |-> feature])

-----------------------------------------------------------------------------
(* is_kyrgyz_school                                                        *)

exclude_markers ==
    << <<"_a", "_v", "_t", "_o", "_sh", "_k", "_o", "_l">>,  \* автошкол
       <<"_v", "_o", "_zh", "_d", "_e", "_n", "_i">>,  \* вождени
       <<"d", "r", "i", "v">>,  \* driv
       <<"_t", "_a", "_n", "_c">>,  \* танц
       <<"d", "a", "n", "c", "e">>,  \* dance
       <<"_h", "_o", "_r", "_e", "_o", "_g", "_r", "_a", "_f">>,  \* хореограф
       <<"_m", "_u", "_z", "_y", "_k">>,  \* музык
       <<"m", "u", "s", "i", "c">>,  \* music
       <<"_ya", "_z", "_y">>,  \* язы
       <<"l", "a", "n", "g", "u", "a", "g", "e">>,  \* language
       <<"_i", "_s", "_k", "_u", "_s", "_s", "_t", "_v">>,  \* искусств
       <<"a", "r", "t">>,  \* art
       <<"_s", "_p", "_o", "_r", "_t">>,  \* спорт
       <<"_f", "_i", "_t", "_n", "_e", "_s">>,  \* фитнес
       <<"_j", "_o", "_g", "_a">>,  \* йога
       <<"_k", "_a", "_r", "_a", "_t">>,  \* карат
       <<"_t", "_a", "_eh", "_k", "_v", "_o", "_n", "_d", "_o">>,  \* таэквондо
       <<"_a", "_j", "_k", "_i", "_d", "_o">>,  \* айкидо
       <<"_f", "_u", "_t", "_b", "_o", "_l">>,  \* футбол
       <<"_t", "_e", "_n", "_n", "_i", "_s">>,  \* теннис
       <<"_b", "_a", "_s", "_k", "_e", "_t", "_b", "_o", "_l">>,  \* баскетбол
       <<"_s", "_a", "_d">>,  \* сад
       <<"_d", "_e", "_t", "_s", "_a", "_d">>,  \* детсад
       <<"_d", "_e", "_t", "_s", "_k", "_i", "_j", " ", "_s", "_a", "_d">>,  \* детский сад
       <<"i", "t", " ">>,  \* it 
       <<" ", "i", "t">>,  \*  it
       <<"_a", "_j", "_t", "_i">>,  \* айти
       <<"_p", "_r", "_o", "_g", "_r", "_a", "_m", "_m", "_i", "_r">>,  \* программир
       <<"_k", "_o", "_l", "_l", "_e", "_d", "_zh">>,  \* колледж
       <<"_u", "_n", "_i", "_v", "_e", "_r", "_s", "_i", "_t", "_e", "_t">>,  \* университет
       <<"_i", "_n", "_s", "_t", "_i", "_t", "_u", "_t">>,  \* институт
       <<"_sh", "_k", "_o", "_l", "_a", " ", "_i", "_s", "_k", "_u", "_s", "_s", "_t", "_v">>,  \* школа искусств
       <<"_d", "_sh", "_i">> >>  \* дши
allowed_category_names ==
    { <<"_SH", "_k", "_o", "_l", "_a">>,  \* Школа
      <<"_S", "_r", "_e", "_d", "_n", "_ya", "_ya", " ", "_sh", "_k", "_o", "_l", "_a">>,  \* Средняя школа
      <<"_G", "_i", "_m", "_n", "_a", "_z", "_i", "_ya">>,  \* Гимназия
      <<"_L", "_i", "_c", "_e", "_j">>,  \* Лицей
      <<"_SH", "_k", "_o", "_l", "_a", "-", "_i", "_n", "_t", "_e", "_r", "_n", "_a", "_t">>,  \* Школа-интернат
      <<"_O", "_b", "_sch", "_e", "_o", "_b", "_r", "_a", "_z", "_o", "_v", "_a", "_t", "_e", "_l", "_soft", "_n", "_a", "_ya", " ", "_sh", "_k", "_o", "_l", "_a">> }  \* Общеобразовательная школа

school_stem == <<"_sh", "_k", "_o", "_l">>  \* школ

is_kyrgyz_school(item) ==
    LET cl == Or(item.categories_list, List(<<>>))
        name == Or(item.name, Str(<<>>))
        address == Or(item.address, Str(<<>>))
    IN IF \E i \in 1..Len(cl.v) : cl.v[i].t # "str" THEN Raise("AttributeError")
       ELSE IF name.t # "str" THEN Raise("AttributeError")
       ELSE
       LET categories_list == [i \in 1..Len(cl.v) |-> strip(cl.v[i].v)]
           categories_lower == lower(join(<<",", " ">>, categories_list))
           name_lower == lower(name.v)
       IN IF \E m \in 1..Len(exclude_markers) :
                \/ contains(exclude_markers[m], categories_lower)
                \/ contains(exclude_markers[m], name_lower)
          THEN Ok(FALSE)
          ELSE IF /\ categories_list # <<>>
                  /\ ~ \E i \in 1..Len(categories_list) :
                           categories_list[i] \in allowed_category_names
                  /\ ~ contains(school_stem, categories_lower)
          THEN Ok(FALSE)
          ELSE IF address.t # "str" THEN Raise("AttributeError")
          ELSE Ok(TRUE)

-----------------------------------------------------------------------------
(* dedupe                                                                  *)

name_addr_prefix == <<"n", "a", "m", "e", "_", "a", "d", "d", "r", ":", ":">>
name_coord_prefix == <<"n", "a", "m", "e", "_", "c", "o", "o", "r", "d", ":", ":">>
punctuation == {",", ".", "\n", "\t", "\r", ";", ":"}

norm_text(value) ==
    IF ~ Truthy(value) THEN <<>>
    ELSE split_join(replace_all(lower(strip(str(value))), punctuation))

\* f"{round(x, 4) if isinstance(x, (int, float)) else ''}"
coord_key(x) ==
    CASE x.t = "num" -> str_int(x.v)
      [] x.t = "flt" -> str_float4(round4(x.v))
      [] OTHER -> <<>>

composite_keys(f) ==
    LET name_key == norm_text(f.name)
        addr_key == norm_text(f.address)
    IN << Or(f.id, Str(<<>>)),
          Str(name_addr_prefix \o name_key \o <<"|">> \o addr_key),
          Str(name_coord_prefix \o name_key \o <<"|">>
              \o coord_key(f.lat) \o <<",">> \o coord_key(f.lon)) >>

\* The first loop over composite_keys: chosen_key is not None.
is_duplicate(keys, seen) == \E k \in 1..Len(keys) : Truthy(keys[k]) /\ keys[k] \in seen

\* register_keys with a break after the first key added.
register_first_key(keys, seen) ==
    LET nonempty == {j \in 1..Len(keys) : Truthy(keys[j])}
    IN IF nonempty = {} THEN seen
       ELSE seen \cup {keys[CHOOSE j \in nonempty : \A k \in nonempty : j <= k]}

\* The second loop over composite_keys: seen after the record is kept.
register_keys(keys, seen) == seen \cup {keys[k] : k \in {j \in 1..Len(keys) : Truthy(keys[j])}}

\* skip_duplicate that takes the keys of the duplicate out of seen.
forget_duplicate(keys, seen) == seen \ {keys[k] : k \in 1..Len(keys)}

\* seen after a duplicate is skipped (continue).
skip_duplicate(keys, seen) == seen

\* One iteration of the loop over features, on the loop's state
\* [seen, result, kept]; kept holds the positions of the appended records.
dedupe_step(st, f, i) ==
    LET keys == composite_keys(f)
    IN IF is_duplicate(keys, st.seen)
       THEN [st EXCEPT !.seen = skip_duplicate(keys, st.seen)]
       ELSE [seen |-> register_keys(keys, st.seen),
             result |-> Append(st.result, f),
             kept |-> st.kept \cup {i}]

RECURSIVE dedupe_loop(_, _, _)
dedupe_loop(features, i, st) ==
    IF i > Len(features) THEN st
    ELSE dedupe_loop(features, i + 1, dedupe_step(st, features[i], i))

dedupe_run(features) == dedupe_loop(features, 1, [seen |-> {}, result |-> <<>>, kept |-> {}])

dedupe(features) == dedupe_run(features).result

-----------------------------------------------------------------------------
(* country_bbox, generate_tiles                                            *)

\* COUNTRY_BBOXES, in hundredths of a degree: (min_lon, min_lat, max_lon, max_lat)
COUNTRY_BBOXES ==
    "KG" :> <<6920, 3920, 8035, 4335>>
    @@ "KZ" :> <<4650, 4056, 8730, 5560>>
    @@ "RU" :> <<1960, 4120, 19000, 8220>>
    @@ "BY" :> <<2310, 5120, 3280, 5620>>
    @@ "UA" :> <<2210, 4400, 4030, 5250>>
    @@ "UZ" :> <<5590, 3720, 7340, 4680>>
    @@ "TJ" :> <<6730, 3660, 7520, 4110>>
    @@ "TM" :> <<5240, 3510, 6670, 4280>>
    @@ "AM" :> <<4340, 3880, 4670, 4130>>
    @@ "AZ" :> <<4480, 3840, 5190, 4190>>
    @@ "GE" :> <<3990, 4100, 4680, 4370>>

country_bbox(country_code) ==
    IF country_code \notin DOMAIN COUNTRY_BBOXES THEN Raise("ValueError")
    ELSE Ok(COUNTRY_BBOXES[country_code])

\* range(n)
range(n) == [k \in 1..(IF n > 0 THEN n ELSE 0) |-> k - 1]

\* The tiles of generate_tiles, row by row.  A tile's four numbers are kept
\* exactly, as multiples of 1/tiles_per_axis: left is min_lon + j * lon_step,
\* held as tiles_per_axis * min_lon + j * (max_lon - min_lon).
generate_tiles(bbox, tiles_per_axis) ==
    IF tiles_per_axis = 0 THEN Raise("ZeroDivisionError")
    ELSE LET n == tiles_per_axis
             width == bbox[3] - bbox[1]
             height == bbox[4] - bbox[2]
             rows == range(n)
             tile(i, j) == << n * bbox[1] + j * width,
                              n * bbox[2] + i * height,
                              n * bbox[1] + j * width + width,
                              n * bbox[2] + i * height + height >>
         IN Ok([k \in 1..(Len(rows) * Len(rows)) |->
                   tile(rows[((k - 1) \div Len(rows)) + 1], rows[((k - 1) % Len(rows)) + 1])])

-----------------------------------------------------------------------------
(* The search backend, as session.get sees it.                             *)

\* Raw results the backend serves during a run.
raw_school ==
    Prune([properties |-> Prune([
               id |-> Str(<<"1">>),
               CompanyMetaData |-> Prune([
                   name |-> Str(<<"_SH", "_k", "_o", "_l", "_a", " ", "5">>),
                   Categories |-> List(<<Prune([name |-> Str(<<"_SH", "_k", "_o", "_l", "_a">>)])>>)])]),
           geometry |-> Prune([coordinates |-> List(<<Flt(7456981), Flt(4287461)>>)])])

raw_driving_school ==
    Prune([properties |-> Prune([
               id |-> Str(<<"2">>),
               CompanyMetaData |-> Prune([
                   name |-> Str(<<"_L", "_i", "_d", "_e", "_r">>),
                   Categories |-> List(<<Prune([name |->
                       Str(<<"_A", "_v", "_t", "_o", "_sh", "_k", "_o", "_l", "_a">>)])>>)])])])

raw_null_properties == Prune([properties |-> Null])

raw_numeric_name ==
    Prune([properties |-> Prune([
               CompanyMetaData |-> Prune([
                   name |-> Num(5),
                   Categories |-> List(<<Prune([name |-> Str(<<"_SH", "_k", "_o", "_l", "_a">>)])>>)])])])

\* The results the backend holds.  The results of a tile are a run of the
\* catalogue, taken cyclically from the place where the tile's results begin.
Catalogue == <<raw_school, raw_driving_school, raw_numeric_name, raw_null_properties>>

\* The n results of a tile whose results begin at start, from offset skip on.
backend_results(start, skip, n) ==
    [i \in 1..n |-> Catalogue[((start + skip + i - 1) % Len(Catalogue)) + 1]]

\* What one session.get for such a tile at offset skip can produce while the run
\* holds `held` records: an exception (timeout, connection error), or a
\* response with a status and, when the status is 200, a body that is JSON
\* with a features list of up to PageSize results or is not JSON.
Responses(start, skip, held) ==
    {[kind |-> "exception", status |-> 0, json |-> FALSE, features |-> <<>>]}
    \cup {[kind |-> "response", status |-> s, json |-> FALSE, features |-> <<>>] :
            s \in {200, 429, 500}}
    \cup {[kind |-> "response", status |-> 200, json |-> TRUE,
           features |-> backend_results(start, skip, n)] :
            n \in {k \in 0..PageSize : held + k <= MaxResults}}

-----------------------------------------------------------------------------
(* fetch_tile                                                              *)

\* resp.raise_for_status(): 4xx and 5xx raise HTTPError
raise_for_status(resp) == resp.status >= 400 /\ resp.status < 600

\* handle_response without the break on a page shorter than PageSize.
handle_response_no_short_stop(resp, pg) ==
    IF resp.status >= 400 /\ resp.status < 600 THEN Raise("HTTPError")
    ELSE IF ~ resp.json THEN Raise("JSONDecodeError")
    ELSE Ok([features |-> resp.features,
             more |-> resp.features # <<>> /\ pg + 1 < MaxPages])

\* What fetch_tile does with the response it keeps for a page: the exception
\* that leaves fetch_tile, or the features of the page and whether the loop
\* over pages goes on.
handle_response(resp, pg) ==
    IF raise_for_status(resp) THEN Raise("HTTPError")
    ELSE IF ~ resp.json THEN Raise("JSONDecodeError")
    ELSE Ok([features |-> resp.features,
             more |-> /\ resp.features # <<>>
                      /\ ~ (Len(resp.features) < PageSize)
                      /\ pg + 1 < MaxPages])

\* retry_after that retries on every error status.
retry_after_any_error(resp) == resp.status >= 400

\* resp.status_code == 429: the request is issued once more
retry_after(resp) == resp.status = 429

\* skip = page * results_per_page
skip_of(pg) == pg * PageSize

-----------------------------------------------------------------------------
(* run_collection                                                          *)

\* caught with the clause for Exception left out.
caught_http_only(e) == e = "HTTPError"

\* The except clauses of the loop over tiles: HTTPError, then Exception.
caught(e) == TRUE

\* The body of the try block after fetch_tile has returned: the new
\* all_features, or the exception that leaves the block.
process_tile(acc, features, is_strict) ==
    LET normalized == [i \in 1..Len(features) |-> normalize_feature(features[i])]
    IN IF \E i \in 1..Len(features) : normalized[i].t = "raise"
       THEN Raise("AttributeError")
       ELSE LET items == [i \in 1..Len(features) |-> normalized[i].v]
                verdict == [i \in 1..Len(features) |-> is_kyrgyz_school(items[i])]
                raising == {i \in 1..Len(features) : verdict[i].t = "raise"}
                keep(it) == is_kyrgyz_school(it).v
            IN IF ~ is_strict THEN Ok(acc \o items)
               ELSE IF raising # {} THEN Raise("AttributeError")
               ELSE Ok(acc \o SelectSeq(items, keep))

\* after_exception that keeps what the tile had fetched.
keep_partial(acc, partial) == acc \o partial

\* all_features after an exception has left the try block; partial holds the
\* raw results fetch_tile had collected for the tile.
after_exception(acc, partial) == acc

\* An exception e leaves the try block of the loop over tiles: an except
\* clause takes it, or it leaves run_collection.
Fail(e) ==
    /\ pc' = IF caught(e) THEN "except" ELSE "crash"
    /\ exc' = e
    /\ all_features' = after_exception(all_features, tile_features)

\* run_collection up to the loop over tiles.
RunStart ==
    /\ mode = "run" /\ pc = "start"
    /\ LET bbox == country_bbox(country)
       IN IF bbox.t = "raise" THEN pc' = "exit" /\ exc' = "SystemExit" /\ UNCHANGED tiles_list
          ELSE LET tl == generate_tiles(bbox.v, tiles)
               IN IF tl.t = "raise" THEN pc' = "crash" /\ exc' = tl.v /\ UNCHANGED tiles_list
                  ELSE pc' = "tile" /\ tiles_list' = tl.v /\ UNCHANGED exc
    /\ UNCHANGED <<mode, country, tiles, strict, idx, page, tile_features, all_features,
                   deduped, requests, failed, tile_start, n_dedupe, input, output, output2>>

\* The loop takes the next tile and enters fetch_tile.
NextTile ==
    /\ mode = "run" /\ pc = "tile" /\ idx < Len(tiles_list)
    /\ pc' = IF MaxPages > 0 THEN "get" ELSE "normalize"
    /\ page' = 0
    /\ tile_features' = <<>>
    /\ requests' = <<>>
    /\ tile_start' \in 0..(Len(Catalogue) - 1)
    /\ UNCHANGED <<mode, country, tiles, strict, tiles_list, idx, all_features, deduped,
                   exc, failed, n_dedupe, input, output, output2>>

\* One session.get of fetch_tile and what follows it up to the next one.
Issue(resp, attempt) ==
    /\ requests' = Append(requests, [page |-> page, skip |-> skip_of(page),
                                     attempt |-> attempt, resp |-> resp])
    /\ IF resp.kind = "exception"
       THEN Fail("ConnectionError") /\ UNCHANGED <<page, tile_features>>
       ELSE IF attempt = 1 /\ retry_after(resp)
       THEN pc' = "retry" /\ UNCHANGED <<page, tile_features, all_features, exc>>
       ELSE LET h == handle_response(resp, page)
            IN IF h.t = "raise" THEN Fail(h.v) /\ UNCHANGED <<page, tile_features>>
               ELSE /\ tile_features' = tile_features \o h.v.features
                    /\ page' = IF h.v.more THEN page + 1 ELSE page
                    /\ pc' = IF h.v.more THEN "get" ELSE "normalize"
                    /\ UNCHANGED <<all_features, exc>>
    /\ UNCHANGED <<mode, country, tiles, strict, tiles_list, idx, deduped, failed,
                   tile_start, n_dedupe, input, output, output2>>

\* The request of a page.
Request(resp) == mode = "run" /\ pc = "get" /\ Issue(resp, 1)

\* The request of the same page again, after a 429.
Retry(resp) == mode = "run" /\ pc = "retry" /\ Issue(resp, 2)

\* fetch_tile has returned: normalize, classify, accumulate.
ProcessTile ==
    /\ mode = "run" /\ pc = "normalize"
    /\ LET r == process_tile(all_features, tile_features, strict)
       IN IF r.t = "raise" THEN Fail(r.v) /\ UNCHANGED <<idx, page, tile_features, requests>>
          ELSE /\ all_features' = r.v
               /\ idx' = idx + 1
               /\ pc' = "tile"
               /\ tile_features' = <<>>
               /\ requests' = <<>>
               /\ UNCHANGED <<page, exc>>
    /\ UNCHANGED <<mode, country, tiles, strict, tiles_list, deduped, failed,
                   tile_start, n_dedupe, input, output, output2>>

\* An except clause of the loop over tiles: the failure is printed, and the
\* loop goes on with the next tile.
Except ==
    /\ mode = "run" /\ pc = "except"
    /\ pc' = "tile"
    /\ idx' = idx + 1
    /\ exc' = "none"
    /\ failed' = failed + 1
    /\ tile_features' = <<>>
    /\ requests' = <<>>
    /\ UNCHANGED <<mode, country, tiles, strict, tiles_list, page, all_features, deduped,
                   tile_start, n_dedupe, input, output, output2>>

\* The loop over tiles has ended: dedupe, and the run returns.
Dedupe ==
    /\ mode = "run" /\ pc = "tile" /\ idx = Len(tiles_list)
    /\ deduped' = dedupe(all_features)
    /\ n_dedupe' = n_dedupe + 1
    /\ pc' = "done"
    /\ UNCHANGED <<mode, country, tiles, strict, tiles_list, idx, page, tile_features,
                   all_features, requests, exc, failed, tile_start,
                   input, output, output2>>

Countries == {"KG", "XX"}

Held == Len(all_features) + Len(tile_features)

Init ==
    /\ mode = "run" /\ pc = "start"
    /\ country \in Countries
    /\ tiles \in (-1)..MaxTilesPerAxis
    /\ strict \in BOOLEAN
    /\ tiles_list = <<>> /\ idx = 0 /\ page = 0
    /\ tile_features = <<>> /\ all_features = <<>> /\ deduped = <<>>
    /\ requests = <<>> /\ exc = "none" /\ failed = 0 /\ tile_start = 0 /\ n_dedupe = 0
    /\ input = <<>> /\ output = <<>> /\ output2 = <<>>

Next ==
    \/ RunStart
    \/ NextTile
    \/ \E resp \in Responses(tile_start, skip_of(page), Held) : Request(resp)
    \/ \E resp \in Responses(tile_start, skip_of(page), Held) : Retry(resp)
    \/ ProcessTile
    \/ Except
    \/ Dedupe

Spec == Init /\ [][Next]_vars

-----------------------------------------------------------------------------
(* dedupe and normalize_feature on their own.                              *)

school_5 == <<"_SH", "_k", "_o", "_l", "_a", " ", "5">>               \* Школа 5
school_5_spaced == <<" ", "_sh", "_k", "_o", "_l", "_a", ",", " ", "5", " ">>  \*  школа, 5
lyceum == <<"_L", "_i", "_c", "_e", "_j">>                             \* Лицей
bishkek == <<"_B", "_i", "_sh", "_k", "_e", "_k">>                     \* Бишкек
bishkek_dot == <<"_b", "_i", "_sh", "_k", "_e", "_k", ".">>            \* бишкек.

\* Records handed to dedupe: the five fields it reads.
DedupeRecords ==
    { [id |-> Null, name |-> Null, address |-> Null, lat |-> Null, lon |-> Null],
      [id |-> Str(<<>>), name |-> Str(<<>>), address |-> Null, lat |-> Null, lon |-> Null],
      [id |-> Str(<<"4", "2">>), name |-> Str(school_5), address |-> Str(bishkek),
       lat |-> Flt(4287461), lon |-> Flt(7456981)],
      [id |-> Str(<<"4", "2">>), name |-> Str(lyceum), address |-> Null,
       lat |-> Null, lon |-> Null],
      [id |-> Str(<<"7">>), name |-> Str(school_5_spaced), address |-> Str(bishkek_dot),
       lat |-> Null, lon |-> Null],
      [id |-> Null, name |-> Str(school_5), address |-> Null,
       lat |-> Flt(4287464), lon |-> Flt(7456984)],
      [id |-> Str(<<"7">>), name |-> Str(lyceum), address |-> Null,
       lat |-> Null, lon |-> Null],
      [id |-> Null, name |-> Null, address |-> Str(bishkek), lat |-> Null, lon |-> Null],
      [id |-> Num(9), name |-> Str(lyceum), address |-> Str(bishkek),
       lat |-> Num(42), lon |-> Num(74)] }

\* Sequences over S of length at most n.
SeqUpTo(S, n) == UNION {[1..k -> S] : k \in 0..n}

InitDedupe ==
    /\ mode = "dedupe" /\ pc = "call"
    /\ input \in SeqUpTo(DedupeRecords, MaxRecords)
    /\ output = <<>> /\ output2 = <<>>
    /\ country = "KG" /\ tiles = 1 /\ strict = TRUE
    /\ tiles_list = <<>> /\ idx = 0 /\ page = 0
    /\ tile_features = <<>> /\ all_features = <<>> /\ deduped = <<>>
    /\ requests = <<>> /\ exc = "none" /\ failed = 0 /\ tile_start = 0 /\ n_dedupe = 0

\* dedupe(input); output also holds the loop's seen set and the positions kept.
DedupeOnce ==
    /\ mode = "dedupe" /\ pc = "call"
    /\ output' = dedupe_run(input)
    /\ pc' = "once"
    /\ UNCHANGED <<mode, country, tiles, strict, tiles_list, idx, page, tile_features,
                   all_features, deduped, requests, exc, failed, tile_start, n_dedupe,
                   input, output2>>

\* dedupe(dedupe(input))
DedupeTwice ==
    /\ mode = "dedupe" /\ pc = "once"
    /\ output2' = dedupe(output.result)
    /\ pc' = "twice"
    /\ UNCHANGED <<mode, country, tiles, strict, tiles_list, idx, page, tile_features,
                   all_features, deduped, requests, exc, failed, tile_start, n_dedupe,
                   input, output>>

NextDedupe == DedupeOnce \/ DedupeTwice

SpecDedupe == InitDedupe /\ [][NextDedupe]_vars

\* Raw results handed to normalize_feature: each nested object missing, null,
\* well-formed, or of another shape.
one == Str(<<"1">>)
PhonesShapes ==
    {Absent, Null, List(<<>>), List(<<Prune([formatted |-> one])>>),
     List(<<Prune([number |-> Num(5)])>>), List(<<one>>)}
CategoriesShapes ==
    {Absent, Null, List(<<Prune([name |-> Str(lyceum)]), Prune([class |-> one])>>),
     List(<<Null>>)}
HoursShapes == {Absent, Null, Prune([text |-> one]), one}
LinksShapes == {Absent, Null, List(<<Prune([href |-> one])>>), List(<<one>>)}
CompanyShapes ==
    {Absent, Null}
    \cup {Prune([name |-> n, Phones |-> p, Categories |-> c, Hours |-> h, Links |-> l]) :
            n \in {Absent, Str(lyceum)}, p \in PhonesShapes, c \in CategoriesShapes,
            h \in HoursShapes, l \in LinksShapes}
PropertiesShapes ==
    {Absent, Null}
    \cup {Prune([id |-> i, description |-> Str(bishkek), CompanyMetaData |-> c]) :
            i \in {Absent, one}, c \in CompanyShapes}
GeometryShapes ==
    {Absent, Null}
    \cup {Prune([coordinates |-> c]) :
            c \in {Absent, Null, List(<<Flt(7456981), Flt(4287461)>>),
                   List(<<Flt(7456981), Flt(4287461), Num(0)>>)}}
RawResults ==
    {Prune([properties |-> p, geometry |-> g]) : p \in PropertiesShapes, g \in GeometryShapes}

InitNormalize ==
    /\ mode = "normalize" /\ pc = "call"
    /\ input \in RawResults
    /\ output = <<>> /\ output2 = <<>>
    /\ country = "KG" /\ tiles = 1 /\ strict = TRUE
    /\ tiles_list = <<>> /\ idx = 0 /\ page = 0
    /\ tile_features = <<>> /\ all_features = <<>> /\ deduped = <<>>
    /\ requests = <<>> /\ exc = "none" /\ failed = 0 /\ tile_start = 0 /\ n_dedupe = 0

\* normalize_feature(input)
Normalize ==
    /\ mode = "normalize" /\ pc = "call"
    /\ output' = normalize_feature(input)
    /\ pc' = "returned"
    /\ UNCHANGED <<mode, country, tiles, strict, tiles_list, idx, page, tile_features,
                   all_features, deduped, requests, exc, failed, tile_start, n_dedupe,
                   input, output2>>

NextNormalize == Normalize

SpecNormalize == InitNormalize /\ [][NextNormalize]_vars

-----------------------------------------------------------------------------
(* Properties.                                                             *)

\* The non-empty candidate keys of a record.
NonEmptyKeys(f) == {k \in {composite_keys(f)[j] : j \in 1..3} : Truthy(k)}

\* The records of f at the positions of S, in the order of f.
RECURSIVE Pick(_, _, _)
Pick(f, S, i) ==
    IF i > Len(f) THEN <<>>
    ELSE (IF i \in S THEN <<f[i]>> ELSE <<>>) \o Pick(f, S, i + 1)

\* C1: dedupe returns the records it kept, in input order; a record is dropped
\* exactly when one of its non-empty keys is a key of an earlier kept record;
\* seen ends as the non-empty keys of the kept records only; no two kept
\* records share a non-empty key; the first record is kept.
C1_DedupeContract ==
    (mode = "dedupe" /\ pc # "call") =>
        LET f == input
            kept == output.kept
        IN /\ kept \subseteq 1..Len(f)
           /\ output.result = Pick(f, kept, 1)
           /\ \A i \in 1..Len(f) :
                  (i \notin kept) <=>
                  \E j \in kept : j < i /\ NonEmptyKeys(f[i]) \cap NonEmptyKeys(f[j]) # {}
           /\ output.seen = UNION {NonEmptyKeys(f[i]) : i \in kept}
           /\ \A i, j \in kept :
                  i # j => NonEmptyKeys(f[i]) \cap NonEmptyKeys(f[j]) = {}
           /\ (Len(f) > 0 => 1 \in kept)

\* A record dropped on a name key although its id differs from the one kept,
\* followed by a kept record that shares the id of the dropped one.
C1_Witness ==
    /\ mode = "dedupe" /\ pc = "once" /\ Len(input) = 3
    /\ output.kept = {1, 3}
    /\ input[2].id # input[1].id
    /\ NonEmptyKeys(input[3]) \cap NonEmptyKeys(input[2]) # {}

\* C9: dedupe(dedupe(x)) = dedupe(x).
C9_Idempotent ==
    (mode = "dedupe" /\ pc = "twice") => output2 = output.result

\* dedupe has dropped a record and kept at least two, and was applied again.
C9_Witness ==
    /\ mode = "dedupe" /\ pc = "twice"
    /\ Len(output.result) < Len(input)
    /\ Len(output.result) >= 2

\* A record with no identifier, no name, no address and no coordinates.
IsKeyless(f) ==
    /\ ~ Truthy(f.id) /\ ~ Truthy(f.name) /\ ~ Truthy(f.address)
    /\ f.lat = Null /\ f.lon = Null

\* C7: every record with no identifier, name, address and coordinates is kept
\* by dedupe, however many of them the input holds.
C7_KeylessAlwaysKept ==
    (mode = "dedupe" /\ pc # "call") =>
        \A i \in 1..Len(input) : IsKeyless(input[i]) => i \in output.kept

\* C3: normalize_feature returns a normalized record for every raw result,
\* whatever the shape of its nested objects; it never raises.
C3_NormalizeTotal ==
    (mode = "normalize" /\ pc = "returned") => output.t = "ok"

\* True when r is a response whose results fetch_tile takes.
IsPage(r) == r.kind = "response" /\ r.status = 200 /\ r.json

\* True when r is a response with an error status.
IsErrorStatus(r) == r.kind = "response" /\ r.status >= 400

RECURSIVE ConcatFeatures(_)
ConcatFeatures(log) ==
    IF log = <<>> THEN <<>> ELSE log[1].resp.features \o ConcatFeatures(Tail(log))

\* C4: fetch_tile requests at most MaxPages pages, page k at offset
\* k * PageSize and only after page k - 1 returned at least PageSize results;
\* after a page with fewer than PageSize results nothing more is requested;
\* on return the tile's features are the pages' results in page order.
C4_Pagination ==
    mode = "run" =>
        LET R == requests
        IN /\ Len(R) <= 2 * MaxPages
           /\ \A i \in 1..Len(R) :
                  R[i].page \in 0..(MaxPages - 1) /\ R[i].skip = R[i].page * PageSize
           /\ (R # <<>> => R[1].page = 0)
           /\ \A i \in 1..(Len(R) - 1) :
                  \/ R[i + 1].page = R[i].page
                  \/ /\ R[i + 1].page = R[i].page + 1
                     /\ IsPage(R[i].resp)
                     /\ Len(R[i].resp.features) >= PageSize
           /\ \A i \in 1..Len(R) :
                  (IsPage(R[i].resp) /\ Len(R[i].resp.features) < PageSize)
                  => (i = Len(R) /\ pc \notin {"get", "retry"})
           /\ (pc = "normalize" => tile_features = ConcatFeatures(R))

\* fetch_tile has returned after MaxPages full pages.
C4_Witness ==
    /\ mode = "run" /\ pc = "normalize"
    /\ page = MaxPages - 1
    /\ Len(tile_features) = MaxPages * PageSize
    /\ \E i \in 1..Len(requests) : requests[i].page = 1 /\ requests[i].skip = PageSize

FetchErrors == {"HTTPError", "ConnectionError", "JSONDecodeError"}

\* fetch_tile has raised.
FetchFailed == pc \in {"except", "crash"} /\ exc \in FetchErrors

\* No request of the current page is pending.
PageSettled == pc # "retry" /\ requests # <<>>

\* The responses received for the page requested last.
LastPageResponses ==
    {i \in 1..Len(requests) :
        requests[i].page = requests[Len(requests)].page /\ requests[i].resp.kind = "response"}

\* At most two requests per page, the second exactly when the first was
\* answered 429, with the offset of the first.
RetryOnce ==
    LET R == requests
    IN /\ \A i \in 1..Len(R) : R[i].attempt \in {1, 2}
       /\ \A i \in 1..Len(R) :
              R[i].attempt = 2 <=> (i > 1 /\ R[i - 1].page = R[i].page)
       /\ \A i \in 2..Len(R) :
              R[i].attempt = 2 =>
                  /\ R[i - 1].attempt = 1
                  /\ R[i - 1].resp.kind = "response" /\ R[i - 1].resp.status = 429
                  /\ R[i].skip = R[i - 1].skip
       /\ \A i \in 1..Len(R) :
              (R[i].attempt = 1 /\ R[i].resp.kind = "response" /\ R[i].resp.status = 429)
              => IF i = Len(R) THEN pc = "retry"
                 ELSE R[i + 1].attempt = 2 /\ R[i + 1].page = R[i].page

C2_State ==
    mode = "run" =>
        /\ (pc = "crash" => (idx = 0 /\ requests = <<>> /\ tiles_list = <<>>))
        /\ idx <= Len(tiles_list)
        /\ failed <= idx
        /\ (pc \in {"get", "retry", "normalize", "except"} => idx < Len(tiles_list))
        /\ (pc \in {"get", "retry"} => Responses(tile_start, skip_of(page), Held) # {})
        /\ n_dedupe = (IF pc = "done" THEN 1 ELSE 0)
        /\ (pc = "done" => (idx = Len(tiles_list) /\ deduped = dedupe(all_features)))

C2_Step ==
    mode = "run" =>
        /\ idx' \in {idx, idx + 1}
        /\ (pc = "except" => (pc' = "tile" /\ idx' = idx + 1))
        /\ ((pc = "tile" /\ idx < Len(tiles_list)) => (pc' \in {"get", "normalize"} /\ idx' = idx))
        /\ (n_dedupe' # n_dedupe => (pc = "tile" /\ idx = Len(tiles_list)))

\* C2: an exception raised while a tile is processed never ends the run: the
\* except clause hands control back to the loop, which takes the tiles one by
\* one in order, and dedupe runs once, after the last tile, over all_features.
C2_FailureIsolated == [] C2_State /\ [][C2_Step]_vars

\* A run over four tiles that has ended, with failed tiles and kept records.
C2_Witness ==
    /\ mode = "run" /\ pc = "done"
    /\ Len(tiles_list) = 4
    /\ failed >= 2 /\ failed < idx
    /\ all_features # <<>>

\* C6: with tiles per axis below 1 the run fails before any request is
\* issued; it never completes.
C6_InvalidTilesRejected ==
    (mode = "run" /\ tiles < 1) => (pc # "done" /\ requests = <<>> /\ idx = 0 /\ pc \in {"start", "exit", "crash"})

\* The records of a fetched tile that the run is to accumulate: those
\* normalize_feature returns, and in strict mode, of these, those for which
\* is_kyrgyz_school returns True.
RECURSIVE Accepted(_, _)
Accepted(features, is_strict) ==
    IF features = <<>> THEN <<>>
    ELSE LET n == normalize_feature(features[1])
             rest == Accepted(Tail(features), is_strict)
         IN IF n.t = "raise" THEN rest
            ELSE IF ~ is_strict THEN <<n.v>> \o rest
            ELSE IF is_kyrgyz_school(n.v) = Ok(TRUE) THEN <<n.v>> \o rest
            ELSE rest

\* C8: once a tile is fetched, all_features grows by every record normalized
\* from it when strict is off, and by exactly those is_kyrgyz_school accepts
\* when strict is on.
C8_ClassifierOnlyInStrict ==
    [][(mode = "run" /\ pc = "normalize")
       => all_features' = all_features \o Accepted(tile_features, strict)]_vars

\* The same for the tiles whose processing raises nothing.
ClassifierOnlyInStrictOnCompletedTiles ==
    [][(mode = "run" /\ pc = "normalize" /\ pc' = "tile")
       => all_features' = all_features \o Accepted(tile_features, strict)]_vars

\* C10: all_features changes only when a tile has been fetched, normalized
\* and classified without an exception; a failing page request, normalization
\* or classification leaves it as it was.
C10_AllOrNothing ==
    [][mode = "run" =>
          /\ (all_features' # all_features => (pc = "normalize" /\ pc' = "tile"))
          /\ (pc' \in {"except", "crash"} => all_features' = all_features)]_vars

\* A page request failed after a page of the same tile had been fetched, with
\* records of earlier tiles accumulated.
C10_Witness ==
    /\ mode = "run" /\ pc = "except" /\ exc \in FetchErrors
    /\ page = 1
    /\ tile_features # <<>>
    /\ all_features # <<>>

====
